---- MODULE Spec2Model ----
(***************************************************************************)
(* A model of AriGit (src/AriGit.mjs): the repository on disk              *)
(* (.arigit/objects, .arigit/HEAD, .arigit/index), one invocation of the   *)
(* command line tool at a time, and what each invocation prints.           *)
(*                                                                         *)
(* Specifications.                                                         *)
(*   Spec       the five commands, one invocation at a time; log one loop  *)
(*              iteration per step                                         *)
(*   FairSpec   init, add, commit and log, with a log that runs on         *)
(*   FaultSpec  init, add, commit and log on a store that loses or damages *)
(*              one commit record between two invocations                  *)
(*   DiffSpec   the diff block of show on two texts                        *)
(*   CrashSpec  init, add and commit one file system call per step, the    *)
(*              process killed at any step                                 *)
(*   RaceSpec   init, add and commit one file system call per step, two    *)
(*              processes running at the same time                         *)
(*                                                                         *)
(* Values.  A JavaScript string is one of                                  *)
(*   [chars |-> <<code points>>]   a text read from a file                 *)
(*   [json  |-> v]                 the text JSON.stringify(v)              *)
(*   [sha1  |-> b]                 the 40 hex digits of the SHA-1 of the   *)
(*                                 bytes b                                 *)
(*   [str   |-> "..."]             a text taken from the command line or   *)
(*                                 the environment, never taken apart      *)
(* and the content of a file is one of                                     *)
(*   [bytes |-> <<byte values>>]   raw bytes                               *)
(*   [utf8  |-> s]                 the UTF-8 encoding of the string s, for *)
(*                                 a string s that is not [chars |-> ..]   *)
(***************************************************************************)
EXTENDS Naturals, Sequences, FiniteSets, TLC

VARIABLES objectsDir, objects, HEAD, index, invocation, out, pc, currentCommitHash, made,
          procs

vars == <<objectsDir, objects, HEAD, index, invocation, out, pc, currentCommitHash, made,
          procs>>

repo == <<objectsDir, objects, HEAD, index>>

\* ------------------------------------------------------------------ bounds
\* commits made; entries staged, in the index and in the commits made; commits
\* made and entries staged together
MaxCommits == 2
MaxStaged == 3
MaxOps == 5
\* code points in a text given to diffLines on its own
MaxTextLen == 3
\* commits in the store and entries in them and in the index when one of two
\* invocations running at the same time starts an add or a commit
MaxRaceOps == 2

\* ------------------------------------------------------------------ inputs
Paths == {"a.txt", "b.txt"}
\* what the file given to add may hold: the text "a", or the one byte 0xFF,
\* which is not valid UTF-8
FileContents == {[bytes |-> <<97>>], [bytes |-> <<255>>]}
Messages == {[str |-> "first"]}
TimeStamps == {1, 2}
Undefined == [undefined |-> TRUE]
EnvUSERNAME == {Undefined}

\* ------------------------------------------------------------------ values
Null == [null |-> TRUE]
Absent == [absent |-> TRUE]
EmptyString == [chars |-> <<>>]

Truthy(v) == v # Null /\ v # Undefined /\ v # EmptyString

ReplacementChar == 65533

\* buffer.toString('utf-8') on bytes that are ASCII, 0xFF or the three bytes
\* EF BF BD of U+FFFD: a byte that is no part of a well-formed sequence is
\* replaced by U+FFFD
RECURSIVE Utf8DecodeSeq(_)
Utf8DecodeSeq(bs) ==
    IF bs = <<>> THEN <<>>
    ELSE IF bs[1] < 128 THEN <<bs[1]>> \o Utf8DecodeSeq(Tail(bs))
    ELSE IF Len(bs) >= 3 /\ SubSeq(bs, 1, 3) = <<239, 191, 189>>
         THEN <<ReplacementChar>> \o Utf8DecodeSeq(SubSeq(bs, 4, Len(bs)))
    ELSE <<ReplacementChar>> \o Utf8DecodeSeq(Tail(bs))

\* the UTF-8 encoding of code points that are ASCII or U+FFFD
RECURSIVE Utf8EncodeSeq(_)
Utf8EncodeSeq(cs) ==
    IF cs = <<>> THEN <<>>
    ELSE IF cs[1] < 128 THEN <<cs[1]>> \o Utf8EncodeSeq(Tail(cs))
    ELSE <<239, 191, 189>> \o Utf8EncodeSeq(Tail(cs))

Utf8Decode(b) ==
    IF "bytes" \in DOMAIN b THEN [chars |-> Utf8DecodeSeq(b.bytes)] ELSE b.utf8

Utf8Encode(s) ==
    IF "chars" \in DOMAIN s THEN [bytes |-> Utf8EncodeSeq(s.chars)] ELSE [utf8 |-> s]

JSONstringify(v) == [json |-> v]

JSONparseThrows(s) == s # Null /\ "json" \notin DOMAIN s

JSONparse(s) == IF s = Null THEN Null ELSE s.json

Sha1(b) == [sha1 |-> b]

\* the digest of a text does not depend on the text
hashObject_constantForTexts(content) ==
    IF "chars" \in DOMAIN content THEN Sha1([bytes |-> <<>>]) ELSE Sha1(Utf8Encode(content))

hashObject(content) == Sha1(Utf8Encode(content))

\* fs.readFile(path.join(objectsPath, name), {encoding: 'utf-8'})
ReadObjectThrows(name) == ~(objectsDir /\ name \in DOMAIN objects)

getFileContent(fileHash) == Utf8Decode(objects[fileHash])

\* JSON.parse(await fs.readFile(this.indexPath, {encoding: 'utf-8'}))
ReadIndexThrows == index = Absent \/ JSONparseThrows(Utf8Decode(index))

ReadIndex == JSONparse(Utf8Decode(index))

getCurrentHead == IF HEAD = Absent THEN Null ELSE Utf8Decode(HEAD)

getCurrentHeadLog == IF HEAD = Absent THEN <<[k |-> "Error reading HEAD:"]>> ELSE <<>>

\* ------------------------------------------------------------------ state
\* the invocations that may run at the same time, and one that is not running
Procs == {1, 2}

\* pc: the step the invocation is at; out: what it has printed; cmd: its
\* command; loc: its local constants; at: the step it was at when it was killed
IdleProc == [pc |-> "idle", out |-> <<>>, cmd |-> "none", loc |-> <<>>, at |-> "none"]

Init ==
    /\ objectsDir = FALSE
    /\ objects = <<>>
    /\ HEAD = Absent
    /\ index = Absent
    /\ invocation = [cmd |-> "none"]
    /\ out = <<>>
    /\ pc = "idle"
    /\ currentCommitHash = Null
    /\ made = <<>>
    /\ procs = [p \in Procs |-> IdleProc]

\* ------------------------------------------------------------------ init
\* HEAD is written without the flag 'wx'
init_overwritesHead ==
    /\ pc = "idle"
    /\ invocation' = [cmd |-> "init"]
    /\ objectsDir' = TRUE
    /\ HEAD' = Utf8Encode(EmptyString)
    /\ IF index # Absent
       THEN /\ out' = <<[k |-> "Repository is already initialized."]>>
            /\ UNCHANGED index
       ELSE /\ index' = Utf8Encode(JSONstringify(<<>>))
            /\ out' = <<[k |-> "Repository initialized successfully."]>>
    /\ UNCHANGED <<objects, pc, currentCommitHash, made, procs>>

\* the index is written first and without the flag 'wx'
init_overwritesIndex ==
    /\ pc = "idle"
    /\ invocation' = [cmd |-> "init"]
    /\ objectsDir' = TRUE
    /\ index' = Utf8Encode(JSONstringify(<<>>))
    /\ IF HEAD # Absent
       THEN /\ out' = <<[k |-> "Repository is already initialized."]>>
            /\ UNCHANGED HEAD
       ELSE /\ HEAD' = Utf8Encode(EmptyString)
            /\ out' = <<[k |-> "Repository initialized successfully."]>>
    /\ UNCHANGED <<objects, pc, currentCommitHash, made, procs>>

init ==
    /\ pc = "idle"
    /\ invocation' = [cmd |-> "init"]
    /\ objectsDir' = TRUE
    /\ IF HEAD # Absent
       THEN /\ out' = <<[k |-> "Repository is already initialized."]>>
            /\ UNCHANGED <<HEAD, index>>
       ELSE /\ HEAD' = Utf8Encode(EmptyString)
            /\ IF index # Absent
               THEN /\ out' = <<[k |-> "Repository is already initialized."]>>
                    /\ UNCHANGED index
               ELSE /\ index' = Utf8Encode(JSONstringify(<<>>))
                    /\ out' = <<[k |-> "Repository initialized successfully."]>>
    /\ UNCHANGED <<objects, pc, currentCommitHash, made, procs>>

\* ------------------------------------------------------------------ add
\* the number of entries in the files of the first n commits made
RECURSIVE Staged(_)
Staged(n) ==
    IF n = 0 THEN 0
    ELSE (IF \/ ReadObjectThrows(made[n])
             \/ JSONparseThrows(getFileContent(made[n]))
          THEN 0
          ELSE Len(JSONparse(getFileContent(made[n])).files)) + Staged(n - 1)

StagedInIndex == IF ReadIndexThrows THEN 0 ELSE Len(ReadIndex)

MayStage ==
    /\ Staged(Len(made)) + StagedInIndex < MaxStaged
    /\ Staged(Len(made)) + StagedInIndex + Len(made) < MaxOps

MayCommit ==
    /\ Len(made) < MaxCommits
    /\ Staged(Len(made)) + StagedInIndex + Len(made) < MaxOps

\* the index file after updateStagingArea(filePath, fileHash)
updateStagingArea(filePath, fileHash) ==
    IF ReadIndexThrows THEN index
    ELSE Utf8Encode(JSONstringify(Append(ReadIndex, [path |-> filePath, hash |-> fileHash])))

updateStagingAreaLog == 
    IF ReadIndexThrows THEN <<[k |-> "Error updating staging area:"]>> ELSE <<>>

\* the write of the object creates the directory objects when it is missing
add_createsObjectsDir(fileToBeAdded, fileBytes) ==
    /\ pc = "idle"
    /\ ~ReadIndexThrows => MayStage
    /\ invocation' = [cmd |-> "add", file |-> fileToBeAdded, bytes |-> fileBytes]
    /\ IF fileBytes = Absent
       THEN /\ out' = <<[k |-> "Error adding file:"]>>
            /\ UNCHANGED <<objectsDir, objects, index>>
       ELSE LET fileData == Utf8Decode(fileBytes)
                fileHash == hashObject(fileData)
            IN /\ objectsDir' = TRUE
               /\ objects' = (fileHash :> Utf8Encode(fileData)) @@ objects
               /\ index' = updateStagingArea(fileToBeAdded, fileHash)
               /\ out' = updateStagingAreaLog \o <<[k |-> "Added", file |-> fileToBeAdded]>>
    /\ UNCHANGED <<HEAD, pc, currentCommitHash, made, procs>>

\* the object holds the bytes of the file as they are on disk, under the digest
\* of the decoded text
add_storesRawBytes(fileToBeAdded, fileBytes) ==
    /\ pc = "idle"
    /\ ~ReadIndexThrows => MayStage
    /\ invocation' = [cmd |-> "add", file |-> fileToBeAdded, bytes |-> fileBytes]
    /\ IF fileBytes = Absent \/ ~objectsDir
       THEN /\ out' = <<[k |-> "Error adding file:"]>>
            /\ UNCHANGED <<objects, index>>
       ELSE LET fileData == Utf8Decode(fileBytes)
                fileHash == hashObject(fileData)
            IN /\ objects' = (fileHash :> fileBytes) @@ objects
               /\ index' = updateStagingArea(fileToBeAdded, fileHash)
               /\ out' = updateStagingAreaLog \o <<[k |-> "Added", file |-> fileToBeAdded]>>
    /\ UNCHANGED <<objectsDir, HEAD, pc, currentCommitHash, made, procs>>

\* fileBytes is what the file to be added holds on disk, Absent when there is
\* no such file
add(fileToBeAdded, fileBytes) ==
    /\ pc = "idle"
    /\ ~ReadIndexThrows => MayStage
    /\ invocation' = [cmd |-> "add", file |-> fileToBeAdded, bytes |-> fileBytes]
    /\ IF fileBytes = Absent \/ ~objectsDir
       THEN /\ out' = <<[k |-> "Error adding file:"]>>
            /\ UNCHANGED <<objects, index>>
       ELSE LET fileData == Utf8Decode(fileBytes)
                fileHash == hashObject(fileData)
            IN /\ objects' = (fileHash :> Utf8Encode(fileData)) @@ objects
               /\ index' = updateStagingArea(fileToBeAdded, fileHash)
               /\ out' = updateStagingAreaLog \o <<[k |-> "Added", file |-> fileToBeAdded]>>
    /\ UNCHANGED <<objectsDir, HEAD, pc, currentCommitHash, made, procs>>

\* ------------------------------------------------------------------ commit
\* parent: parentCommit || null (commitParent_alwaysNull: the head is not
\* recorded)
commitParent_alwaysNull(parentCommit) == Null

commitParent(parentCommit) == IF Truthy(parentCommit) THEN parentCommit ELSE Null

\* the index file as commit leaves it (clearedIndex_kept: the write of line 84
\* left out)
clearedIndex_kept == index

clearedIndex == Utf8Encode(JSONstringify(<<>>))

Username(env) == IF Truthy(env) THEN env ELSE [str |-> "anonymous"]

commit(message, now, env) ==
    /\ pc = "idle"
    /\ MayCommit
    /\ invocation' = [cmd |-> "commit", message |-> message]
    /\ IF ReadIndexThrows
       THEN /\ out' = <<[k |-> "Error committing:"]>>
            /\ UNCHANGED <<objects, HEAD, index, made>>
       ELSE LET parentCommit == getCurrentHead
                commitData == [timeStamp |-> now,
                               message |-> message,
                               files |-> ReadIndex,
                               parent |-> commitParent(parentCommit),
                               username |-> Username(env)]
                commitHash == hashObject(JSONstringify(commitData))
            IN IF ~objectsDir
               THEN /\ out' = getCurrentHeadLog \o <<[k |-> "Error committing:"]>>
                    /\ UNCHANGED <<objects, HEAD, index, made>>
               ELSE /\ objects' = (commitHash :> Utf8Encode(JSONstringify(commitData))) @@ objects
                    /\ HEAD' = Utf8Encode(commitHash)
                    /\ index' = clearedIndex
                    /\ out' = getCurrentHeadLog \o
                              <<[k |-> "Commit successfully created:", hash |-> commitHash]>>
                    /\ made' = Append(made, commitHash)
    /\ UNCHANGED <<objectsDir, pc, currentCommitHash, procs>>

\* ------------------------------------------------------------------ log
\* const arigit = new AriGit(); await arigit.log(): up to the first test of
\* the loop condition
logStart ==
    /\ pc = "idle"
    /\ invocation' = [cmd |-> "log"]
    /\ out' = getCurrentHeadLog
    /\ currentCommitHash' = getCurrentHead
    /\ pc' = "log"
    /\ UNCHANGED <<objectsDir, objects, HEAD, index, made, procs>>

\* currentCommitHash = commitData.parent (nextCommitHash_stops: the walk ends
\* after one commit)
nextCommitHash_stops(commitData) == Null

nextCommitHash(commitData) == commitData.parent

\* the catch block of log prints nothing
logStep_silent ==
    /\ pc = "log"
    /\ Truthy(currentCommitHash)
    /\ IF \/ ReadObjectThrows(currentCommitHash)
          \/ JSONparseThrows(getFileContent(currentCommitHash))
       THEN /\ pc' = "idle"
            /\ UNCHANGED <<out, currentCommitHash>>
       ELSE LET commitData == JSONparse(getFileContent(currentCommitHash))
            IN /\ out' = Append(out, [k |-> "Commit:",
                                      hash |-> currentCommitHash,
                                      date |-> commitData.timeStamp,
                                      user |-> commitData.username,
                                      message |-> commitData.message])
               /\ currentCommitHash' = nextCommitHash(commitData)
               /\ UNCHANGED pc
    /\ UNCHANGED <<objectsDir, objects, HEAD, index, invocation, made, procs>>

\* one iteration of while (currentCommitHash)
logStep ==
    /\ pc = "log"
    /\ Truthy(currentCommitHash)
    /\ IF \/ ReadObjectThrows(currentCommitHash)
          \/ JSONparseThrows(getFileContent(currentCommitHash))
       THEN /\ out' = Append(out, [k |-> "Error retrieving commit log:"])
            /\ pc' = "idle"
            /\ UNCHANGED currentCommitHash
       ELSE LET commitData == JSONparse(getFileContent(currentCommitHash))
            IN /\ out' = Append(out, [k |-> "Commit:",
                                      hash |-> currentCommitHash,
                                      date |-> commitData.timeStamp,
                                      user |-> commitData.username,
                                      message |-> commitData.message])
               /\ currentCommitHash' = nextCommitHash(commitData)
               /\ UNCHANGED pc
    /\ UNCHANGED <<objectsDir, objects, HEAD, index, invocation, made, procs>>

\* the loop condition is false: log() returns
logExit ==
    /\ pc = "log"
    /\ ~Truthy(currentCommitHash)
    /\ pc' = "idle"
    /\ UNCHANGED <<objectsDir, objects, HEAD, index, invocation, out, currentCommitHash, made, procs>>

\* ------------------------------------------------------------------ show
ErrorShowing == [k |-> "Error showing commit diff:"]

FailedToRead == [k |-> "Failed to read the commit data:"]

\* the entry is looked up by file.hash === filePath; no digest is a path of
\* Paths, so nothing is found
find_comparesHash(files, filePath) == Undefined

\* parentCommitData.files.find(file => file.path === filePath)
find(files, filePath) ==
    IF \E i \in 1..Len(files) : files[i].path = filePath
    THEN files[CHOOSE i \in 1..Len(files) :
                   /\ files[i].path = filePath
                   /\ \A j \in 1..(i - 1) : files[j].path # filePath]
    ELSE Undefined

\* ------------------------------------------------------------------ diffLines
\* (package diff), after section 4.4 of the specification: the lines of the two
\* texts, each with its line break; a longest common subsequence of them; the
\* runs of lines that are common, only old, only new
Newline == 10

\* the lines of a text, each ending with its line break, the last one perhaps
\* without
RECURSIVE Lines(_)
Lines(cs) ==
    IF cs = <<>> THEN <<>>
    ELSE LET breaks == {i \in 1..Len(cs) : cs[i] = Newline}
             n == IF breaks = {} THEN Len(cs)
                  ELSE CHOOSE i \in breaks : \A j \in breaks : i <= j
         IN <<SubSeq(cs, 1, n)>> \o Lines(SubSeq(cs, n + 1, Len(cs)))

\* the length of a longest common subsequence of two sequences of lines
RECURSIVE LcsLen(_, _)
LcsLen(a, b) ==
    IF a = <<>> \/ b = <<>> THEN 0
    ELSE IF Head(a) = Head(b) THEN 1 + LcsLen(Tail(a), Tail(b))
    ELSE LET x == LcsLen(Tail(a), b)
             y == LcsLen(a, Tail(b))
         IN IF x >= y THEN x ELSE y

\* one part per line: common lines untagged, the others removed or added, a
\* removed line first where either keeps the common subsequence longest
RECURSIVE EditScript(_, _)
EditScript(a, b) ==
    IF a = <<>> /\ b = <<>> THEN <<>>
    ELSE IF a = <<>>
    THEN <<[value |-> Head(b), added |-> TRUE, removed |-> FALSE]>> \o EditScript(a, Tail(b))
    ELSE IF b = <<>>
    THEN <<[value |-> Head(a), added |-> FALSE, removed |-> TRUE]>> \o EditScript(Tail(a), b)
    ELSE IF Head(a) = Head(b)
    THEN <<[value |-> Head(b), added |-> FALSE, removed |-> FALSE]>>
             \o EditScript(Tail(a), Tail(b))
    ELSE IF LcsLen(Tail(a), b) >= LcsLen(a, Tail(b))
    THEN <<[value |-> Head(a), added |-> FALSE, removed |-> TRUE]>> \o EditScript(Tail(a), b)
    ELSE <<[value |-> Head(b), added |-> TRUE, removed |-> FALSE]>> \o EditScript(a, Tail(b))

\* neighbouring parts of one kind joined into one part
RECURSIVE MergeRuns(_)
MergeRuns(parts) ==
    IF Len(parts) < 2 THEN parts
    ELSE LET rest == MergeRuns(Tail(parts))
             p == Head(parts)
             q == Head(rest)
         IN IF p.added = q.added /\ p.removed = q.removed
            THEN <<[q EXCEPT !.value = p.value \o q.value]>> \o Tail(rest)
            ELSE <<p>> \o rest

\* diffLines(oldStr, newStr): parts {value, added, removed}
diffLines(oldStr, newStr) ==
    LET parts == MergeRuns(EditScript(Lines(oldStr.chars), Lines(newStr.chars)))
    IN [i \in 1..Len(parts) |-> [parts[i] EXCEPT !.value = [chars |-> parts[i].value]]]

\* ------------------------------------------------------------------ show:
\* the diff of a file
\* a part that is not tagged removed is printed as added
renderPart_untaggedIsAdded(part) ==
    IF part.removed THEN [k |-> "--", text |-> part.value]
    ELSE [k |-> "++", text |-> part.value]

\* the body of diff.forEach(part => ...)
renderPart(part) ==
    IF part.added THEN [k |-> "++", text |-> part.value]
    ELSE IF part.removed THEN [k |-> "--", text |-> part.value]
    ELSE [k |-> "grey", text |-> part.value]

\* the two texts are handed to diffLines the other way round
diffOutcome_swapped(parentFileContent, fileContent) ==
    LET diff == diffLines(fileContent, parentFileContent)
    IN [k |-> "Diff:", old |-> parentFileContent, new |-> fileContent,
        parts |-> [i \in 1..Len(diff) |-> renderPart(diff[i])]]

\* what show prints from 'Diff:' on for one file: the two texts diffed, and
\* the rendering of each part in order
diffOutcome(parentFileContent, fileContent) ==
    LET diff == diffLines(parentFileContent, fileContent)
    IN [k |-> "Diff:", old |-> parentFileContent, new |-> fileContent,
        parts |-> [i \in 1..Len(diff) |-> renderPart(diff[i])]]

\* what one iteration of the loop over commitData.files prints; its last line
\* is ErrorShowing when the iteration throws
showFile(file, commitData) ==
    LET header == <<[k |-> "File:", path |-> file.path]>>
    IN IF ReadObjectThrows(file.hash) THEN header \o <<ErrorShowing>>
       ELSE LET fileContent == getFileContent(file.hash)
                shown == header \o <<[k |-> "content", text |-> fileContent]>>
            IN IF ~Truthy(commitData.parent)
               THEN shown \o <<[k |-> "First commit."]>>
               ELSE IF ReadObjectThrows(commitData.parent)
               THEN shown \o <<FailedToRead, ErrorShowing>>
               ELSE IF JSONparseThrows(getFileContent(commitData.parent))
               THEN shown \o <<ErrorShowing>>
               ELSE LET parentCommitData == JSONparse(getFileContent(commitData.parent))
                        parentFile == find(parentCommitData.files, file.path)
                    IN IF parentFile = Undefined
                       THEN shown \o <<[k |-> "New file in this commit."]>>
                       ELSE IF ReadObjectThrows(parentFile.hash)
                       THEN shown \o <<ErrorShowing>>
                       ELSE shown \o <<diffOutcome(getFileContent(parentFile.hash),
                                                   fileContent)>>

RECURSIVE showFiles(_, _)
showFiles(files, commitData) ==
    IF files = <<>> THEN <<>>
    ELSE LET lines == showFile(Head(files), commitData)
         IN IF lines[Len(lines)] = ErrorShowing THEN lines
            ELSE lines \o showFiles(Tail(files), commitData)

showOutput(commitHash) ==
    IF ReadObjectThrows(commitHash)
    THEN <<FailedToRead, [k |-> "Commit not found."]>>
    ELSE IF JSONparseThrows(getFileContent(commitHash))
    THEN <<ErrorShowing>>
    ELSE LET commitData == JSONparse(getFileContent(commitHash))
         IN <<[k |-> "Changes in the last commit are:"]>>
            \o showFiles(commitData.files, commitData)

\* the index is reset as at the end of commit
showCommitDiff_clearsIndex(commitHash) ==
    /\ pc = "idle"
    /\ invocation' = [cmd |-> "show", commitHash |-> commitHash]
    /\ out' = showOutput(commitHash)
    /\ index' = IF index = Absent THEN index ELSE Utf8Encode(JSONstringify(<<>>))
    /\ UNCHANGED <<objectsDir, objects, HEAD, pc, currentCommitHash, made, procs>>

showCommitDiff(commitHash) ==
    /\ pc = "idle"
    /\ invocation' = [cmd |-> "show", commitHash |-> commitHash]
    /\ out' = showOutput(commitHash)
    /\ UNCHANGED <<objectsDir, objects, HEAD, index, pc, currentCommitHash, made, procs>>

\* a digest under which nothing is stored
NoSuchObject == [str |-> "0000"]

Next ==
    \/ init
    \/ \E f \in Paths, b \in FileContents \cup {Absent} : add(f, b)
    \/ \E m \in Messages, t \in TimeStamps, e \in EnvUSERNAME : commit(m, t, e)
    \/ logStart
    \/ logStep
    \/ logExit
    \/ \E h \in DOMAIN objects \cup {NoSuchObject} : showCommitDiff(h)

Spec == Init /\ [][Next]_vars

\* the commands that write, and log; show, which writes nothing and runs
\* between two invocations of log, is left out
LogNext ==
    \/ init
    \/ \E f \in Paths, b \in FileContents \cup {Absent} : add(f, b)
    \/ \E m \in Messages, t \in TimeStamps, e \in EnvUSERNAME : commit(m, t, e)
    \/ logStart
    \/ logStep
    \/ logExit

\* an invocation of log that has started runs on: node keeps executing the
\* loop until log() returns
FairSpec == Init /\ [][LogNext]_vars /\ WF_vars(logStep) /\ WF_vars(logExit)

\* ------------------------------------------------------------------ the diff
\* of show on two texts
TextChars == {97, 98, Newline}

RECURSIVE TextsOfLen(_)
TextsOfLen(n) ==
    IF n = 0 THEN {<<>>}
    ELSE {Append(t, c) : t \in TextsOfLen(n - 1), c \in TextChars}

Texts == UNION {{[chars |-> t] : t \in TextsOfLen(n)} : n \in 0..MaxTextLen}

\* show has read the blob of the parent's entry and the blob of the file
DiffInit ==
    /\ objectsDir = FALSE
    /\ objects = <<>>
    /\ HEAD = Absent
    /\ index = Absent
    /\ \E parentFileContent \in Texts, fileContent \in Texts :
           invocation = [cmd |-> "diff", old |-> parentFileContent, new |-> fileContent]
    /\ out = <<>>
    /\ pc = "diff"
    /\ currentCommitHash = Null
    /\ made = <<>>
    /\ procs = [p \in Procs |-> IdleProc]

\* lines 145 to 157 on the two texts
showDiff ==
    /\ pc = "diff"
    /\ out' = <<diffOutcome(invocation.old, invocation.new)>>
    /\ pc' = "idle"
    /\ UNCHANGED <<objectsDir, objects, HEAD, index, invocation, currentCommitHash, made, procs>>

DiffSpec == DiffInit /\ [][showDiff]_vars

\* ------------------------------------------------------------------ the
\* invocations one file system call at a time
\* the invocation p starts the command cmd and comes to the step to
Started(cmd, to, loc) == [pc |-> to, out |-> <<>>, cmd |-> cmd, loc |-> loc, at |-> "none"]

\* the invocation p prints lines and returns; its local constants are gone
Returned(p, lines) == [procs[p] EXCEPT !.pc = "idle", !.out = @ \o lines, !.loc = <<>>]

\* the invocation p goes on to the step to
Goes(p, to) == [procs[p] EXCEPT !.pc = to]

\* init, line 20: mkdir with recursive: true does not throw when the
\* directory exists
initMkdir(p) ==
    /\ procs[p].pc = "idle"
    /\ objectsDir' = TRUE
    /\ procs' = [procs EXCEPT ![p] = Started("init", "init_head", <<>>)]
    /\ UNCHANGED <<objects, HEAD, index, invocation, out, pc, currentCommitHash, made>>

\* init, line 21: the flag 'wx' makes the write throw when HEAD exists
initHead(p) ==
    /\ procs[p].pc = "init_head"
    /\ IF HEAD # Absent
       THEN /\ procs' = [procs EXCEPT ![p] =
                            Returned(p, <<[k |-> "Repository is already initialized."]>>)]
            /\ UNCHANGED HEAD
       ELSE /\ HEAD' = Utf8Encode(EmptyString)
            /\ procs' = [procs EXCEPT ![p] = Goes(p, "init_index")]
    /\ UNCHANGED <<objectsDir, objects, index, invocation, out, pc, currentCommitHash, made>>

\* init, lines 22 and 23
initIndex(p) ==
    /\ procs[p].pc = "init_index"
    /\ IF index # Absent
       THEN /\ procs' = [procs EXCEPT ![p] =
                            Returned(p, <<[k |-> "Repository is already initialized."]>>)]
            /\ UNCHANGED index
       ELSE /\ index' = Utf8Encode(JSONstringify(<<>>))
            /\ procs' = [procs EXCEPT ![p] =
                            Returned(p, <<[k |-> "Repository initialized successfully."]>>)]
    /\ UNCHANGED <<objectsDir, objects, HEAD, invocation, out, pc, currentCommitHash, made>>

\* add, lines 35 and 36: the file is read and hashed
addReadFile(p, fileToBeAdded, fileBytes) ==
    /\ procs[p].pc = "idle"
    /\ ~ReadIndexThrows => MayStage
    /\ IF fileBytes = Absent
       THEN procs' = [procs EXCEPT ![p] =
                [Started("add", "idle", [file |-> fileToBeAdded, bytes |-> fileBytes])
                    EXCEPT !.out = <<[k |-> "Error adding file:"]>>]]
       ELSE LET fileData == Utf8Decode(fileBytes)
            IN procs' = [procs EXCEPT ![p] =
                   Started("add", "add_object",
                           [file |-> fileToBeAdded, bytes |-> fileBytes,
                            fileData |-> fileData, fileHash |-> hashObject(fileData)])]
    /\ UNCHANGED <<objectsDir, objects, HEAD, index, invocation, out, pc, currentCommitHash, made>>

\* add, line 39
addWriteObject(p) ==
    /\ procs[p].pc = "add_object"
    /\ IF ~objectsDir
       THEN /\ procs' = [procs EXCEPT ![p] = Returned(p, <<[k |-> "Error adding file:"]>>)]
            /\ UNCHANGED objects
       ELSE /\ objects' = (procs[p].loc.fileHash :> Utf8Encode(procs[p].loc.fileData))
                              @@ objects
            /\ procs' = [procs EXCEPT ![p] = Goes(p, "add_index")]
    /\ UNCHANGED <<objectsDir, HEAD, index, invocation, out, pc, currentCommitHash, made>>

\* updateStagingArea, lines 49 and 50, and when they throw lines 53 and 41
addReadIndex(p) ==
    /\ procs[p].pc = "add_index"
    /\ IF ReadIndexThrows
       THEN procs' = [procs EXCEPT ![p] =
                Returned(p, <<[k |-> "Error updating staging area:"],
                              [k |-> "Added", file |-> procs[p].loc.file]>>)]
       ELSE procs' = [procs EXCEPT ![p] =
                [Goes(p, "add_write") EXCEPT !.loc =
                    [file |-> @.file, bytes |-> @.bytes, fileData |-> @.fileData,
                     fileHash |-> @.fileHash,
                     index |-> Append(ReadIndex, [path |-> @.file, hash |-> @.fileHash])]]]
    /\ UNCHANGED <<objectsDir, objects, HEAD, index, invocation, out, pc, currentCommitHash, made>>

\* the index is read again at the write, so that the write is an append to the
\* index as it is then
addWriteIndex_appends(p) ==
    /\ procs[p].pc = "add_write"
    /\ index' = updateStagingArea(procs[p].loc.file, procs[p].loc.fileHash)
    /\ procs' = [procs EXCEPT ![p] =
                    Returned(p, <<[k |-> "Added", file |-> procs[p].loc.file]>>)]
    /\ UNCHANGED <<objectsDir, objects, HEAD, invocation, out, pc, currentCommitHash, made>>

\* updateStagingArea, line 51, and line 41
addWriteIndex(p) ==
    /\ procs[p].pc = "add_write"
    /\ index' = Utf8Encode(JSONstringify(procs[p].loc.index))
    /\ procs' = [procs EXCEPT ![p] =
                    Returned(p, <<[k |-> "Added", file |-> procs[p].loc.file]>>)]
    /\ UNCHANGED <<objectsDir, objects, HEAD, invocation, out, pc, currentCommitHash, made>>

\* commit, line 68
commitReadIndex(p, message) ==
    /\ procs[p].pc = "idle"
    /\ MayCommit
    /\ IF ReadIndexThrows
       THEN procs' = [procs EXCEPT ![p] =
                [Started("commit", "idle", [message |-> message])
                    EXCEPT !.out = <<[k |-> "Error committing:"]>>]]
       ELSE procs' = [procs EXCEPT ![p] =
                Started("commit", "commit_head", [message |-> message, index |-> ReadIndex])]
    /\ UNCHANGED <<objectsDir, objects, HEAD, index, invocation, out, pc, currentCommitHash, made>>

\* commit, lines 69 to 80
commitReadHead(p, now, env) ==
    /\ procs[p].pc = "commit_head"
    /\ LET parentCommit == getCurrentHead
           commitData == [timeStamp |-> now,
                          message |-> procs[p].loc.message,
                          files |-> procs[p].loc.index,
                          parent |-> commitParent(parentCommit),
                          username |-> Username(env)]
       IN procs' = [procs EXCEPT ![p] =
              [procs[p] EXCEPT !.pc = "commit_object",
                               !.out = @ \o getCurrentHeadLog,
                               !.loc = [message |-> @.message, index |-> @.index,
                                        head |-> HEAD,
                                        commitData |-> commitData,
                                        commitHash |-> hashObject(JSONstringify(commitData))]]]
    /\ UNCHANGED <<objectsDir, objects, HEAD, index, invocation, out, pc, currentCommitHash, made>>

\* the record is not written, the invocation goes on
commitWriteObject_skipsWrite(p) ==
    /\ procs[p].pc = "commit_object"
    /\ made' = Append(made, procs[p].loc.commitHash)
    /\ procs' = [procs EXCEPT ![p] = Goes(p, "commit_writeHead")]
    /\ UNCHANGED <<objectsDir, objects, HEAD, index, invocation, out, pc, currentCommitHash>>

\* commit, line 82
commitWriteObject(p) ==
    /\ procs[p].pc = "commit_object"
    /\ IF ~objectsDir
       THEN /\ procs' = [procs EXCEPT ![p] = Returned(p, <<[k |-> "Error committing:"]>>)]
            /\ UNCHANGED <<objects, made>>
       ELSE /\ objects' = (procs[p].loc.commitHash
                               :> Utf8Encode(JSONstringify(procs[p].loc.commitData)))
                              @@ objects
            /\ made' = Append(made, procs[p].loc.commitHash)
            /\ procs' = [procs EXCEPT ![p] = Goes(p, "commit_writeHead")]
    /\ UNCHANGED <<objectsDir, HEAD, index, invocation, out, pc, currentCommitHash>>

\* commit, line 83
commitWriteHead(p) ==
    /\ procs[p].pc = "commit_writeHead"
    /\ HEAD' = Utf8Encode(procs[p].loc.commitHash)
    /\ procs' = [procs EXCEPT ![p] = Goes(p, "commit_writeIndex")]
    /\ UNCHANGED <<objectsDir, objects, index, invocation, out, pc, currentCommitHash, made>>

\* commit, lines 84 and 86
commitWriteIndex(p) ==
    /\ procs[p].pc = "commit_writeIndex"
    /\ index' = clearedIndex
    /\ procs' = [procs EXCEPT ![p] =
                    Returned(p, <<[k |-> "Commit successfully created:",
                                   hash |-> procs[p].loc.commitHash]>>)]
    /\ UNCHANGED <<objectsDir, objects, HEAD, invocation, out, pc, currentCommitHash, made>>

\* the process of the invocation p is ended from outside between two of its
\* file system calls
kill(p) ==
    /\ procs[p].pc # "idle"
    /\ procs' = [procs EXCEPT ![p] = [@ EXCEPT !.pc = "idle", !.at = procs[p].pc]]
    /\ UNCHANGED <<objectsDir, objects, HEAD, index, invocation, out, pc, currentCommitHash,
                   made>>

Steps(p) ==
    \/ initMkdir(p)
    \/ initHead(p)
    \/ initIndex(p)
    \/ \E f \in Paths, b \in FileContents \cup {Absent} : addReadFile(p, f, b)
    \/ addWriteObject(p)
    \/ addReadIndex(p)
    \/ addWriteIndex(p)
    \/ \E m \in Messages : commitReadIndex(p, m)
    \/ \E t \in TimeStamps, e \in EnvUSERNAME : commitReadHead(p, t, e)
    \/ commitWriteObject(p)
    \/ commitWriteHead(p)
    \/ commitWriteIndex(p)

\* one invocation at a time, which may be killed
CrashNext == Steps(1) \/ kill(1)

CrashSpec == Init /\ [][CrashNext]_vars

MayRace == Staged(Len(made)) + StagedInIndex + Len(made) < MaxRaceOps

\* two invocations at a time, each running to its end; the files added hold
\* the text "a", the commits are made at the time 1
RaceNext ==
    \E p \in Procs :
        \/ initMkdir(p)
        \/ initHead(p)
        \/ initIndex(p)
        \/ MayRace /\ \E f \in Paths : addReadFile(p, f, [bytes |-> <<97>>])
        \/ addWriteObject(p)
        \/ addReadIndex(p)
        \/ addWriteIndex(p)
        \/ MayRace /\ \E m \in Messages : commitReadIndex(p, m)
        \/ \E e \in EnvUSERNAME : commitReadHead(p, 1, e)
        \/ commitWriteObject(p)
        \/ commitWriteHead(p)
        \/ commitWriteIndex(p)

RaceSpec == Init /\ [][RaceNext]_vars

\* ------------------------------------------------------------------ a store
\* that loses an object
\* the object stored under h can be read and parsed
Readable(h) == ~ReadObjectThrows(h) /\ ~JSONparseThrows(getFileContent(h))

\* every commit made is in the store as it was written
Intact == \A i \in 1..Len(made) : Readable(made[i])

\* bytes that JSON.parse rejects
NotJSON == [bytes |-> <<97>>]

\* between two invocations the file of the commit h is removed from
\* .arigit/objects: readFile (line 95, line 109) then throws
loseObject(h) ==
    /\ pc = "idle"
    /\ Intact
    /\ objects' = [d \in DOMAIN objects \ {h} |-> objects[d]]
    /\ invocation' = [cmd |-> "none"]
    /\ out' = <<>>
    /\ UNCHANGED <<objectsDir, HEAD, index, pc, currentCommitHash, made, procs>>

\* between two invocations the file of the commit h is overwritten: JSON.parse
\* (line 95, line 130) then throws
damageObject(h) ==
    /\ pc = "idle"
    /\ Intact
    /\ objects' = [objects EXCEPT ![h] = NotJSON]
    /\ invocation' = [cmd |-> "none"]
    /\ out' = <<>>
    /\ UNCHANGED <<objectsDir, HEAD, index, pc, currentCommitHash, made, procs>>

\* init, add, commit and log on a store that loses or damages one commit, and
\* log on the store after that; show, which writes nothing, is left out
FaultNext ==
    \/ /\ Intact
       /\ \/ init
          \/ \E f \in Paths, b \in FileContents \cup {Absent} : add(f, b)
          \/ \E m \in Messages, t \in TimeStamps, e \in EnvUSERNAME : commit(m, t, e)
    \/ logStart
    \/ logStep
    \/ logExit
    \/ \E i \in 1..Len(made) : loseObject(made[i])
    \/ \E i \in 1..Len(made) : damageObject(made[i])

FaultSpec == Init /\ [][FaultNext]_vars

\* ------------------------------------------------------------------ what the
\* properties below speak of
Succeeded(cmd, line) ==
    /\ invocation.cmd = cmd
    /\ pc = "idle"
    /\ out # <<>>
    /\ out[Len(out)].k = line

\* the commit record stored under the digest h
CommitAt(h) == JSONparse(Utf8Decode(objects[h]))

IsCommitLine(line) == line.k = "Commit:"

\* the commits a finished log has printed, in the order printed
LogEntries == SelectSeq(out, IsCommitLine)

LogDone == invocation.cmd = "log" /\ pc = "idle"

\* the digests met from h along the parent fields, at most n of them
RECURSIVE ParentChain(_, _)
ParentChain(h, n) ==
    IF n = 0 \/ ~Truthy(h) \/ h \notin DOMAIN objects THEN <<>>
    ELSE <<h>> \o ParentChain(CommitAt(h).parent, n - 1)

\* C1: a successful commit stores exactly one new object, the record of a
\* commit whose files are the index as it was, in the same order, and whose
\* parent is the head as it was (null when the head was empty); it leaves
\* every other object alone, makes Head the digest of that record and leaves
\* the index the empty sequence.
C1_CommitEffect ==
    [][Succeeded("commit", "Commit successfully created:")' =>
        LET I == ReadIndex
            H == getCurrentHead
            h == Utf8Decode(HEAD')
            record == JSONparse(Utf8Decode(objects'[h]))
        IN /\ h \notin DOMAIN objects
           /\ DOMAIN objects' = DOMAIN objects \cup {h}
           /\ \A d \in DOMAIN objects : objects'[d] = objects[d]
           /\ h = Sha1(objects'[h])
           /\ record.files = I
           /\ record.parent = (IF H = EmptyString THEN Null ELSE H)
           /\ ReadIndex' = <<>>]_vars

\* a second commit, of a non-empty index, has just succeeded
C1_Witness ==
    /\ Succeeded("commit", "Commit successfully created:")
    /\ Len(made) = 2
    /\ CommitAt(made[2]).files # <<>>
    /\ CommitAt(made[2]).parent = made[1]

\* C2: an invocation of log comes to an end, and when it has, it has printed
\* no error, the commits printed are exactly the chain of parents from Head,
\* the last of them has parent null, and there are as many as commits made.
C2_LogWalksChain ==
    /\ [](LogDone =>
            /\ Len(LogEntries) = Len(made)
            /\ \A i \in 1..Len(out) : out[i].k # "Error retrieving commit log:"
            /\ [i \in 1..Len(LogEntries) |-> LogEntries[i].hash]
                   = ParentChain(getCurrentHead, Cardinality(DOMAIN objects) + 1)
            /\ LogEntries # <<>> =>
                   CommitAt(LogEntries[Len(LogEntries)].hash).parent = Null)
    /\ ((pc = "log") ~> (pc = "idle"))

\* a log of two commits has ended
C2_Witness == LogDone /\ Len(LogEntries) = 2 /\ Len(made) = 2

\* C3: a finished log has printed every commit made, and of two commits the
\* one made later is printed first, whatever their timestamps.
C3_LogNewestFirst ==
    LogDone =>
        \A i, j \in 1..Len(made) :
            i < j => \E p, q \in 1..Len(LogEntries) :
                        /\ p < q
                        /\ LogEntries[p].hash = made[j]
                        /\ LogEntries[q].hash = made[i]

\* a log of two commits has ended, the later commit bearing the earlier
\* timestamp
C3_Witness ==
    /\ LogDone
    /\ Len(made) = 2
    /\ Len(LogEntries) = 2
    /\ CommitAt(made[2]).timeStamp < CommitAt(made[1]).timeStamp
\* C4: a successful add of the path p, the file holding the bytes c, stores c
\* under the digest of c and leaves the index the index as it was with the
\* one entry {p, digest of c} added at its end, whether p was staged before
\* or not.
C4_AddEffect ==
    [][(Succeeded("add", "Added")' /\ Len(out') = 1) =>
        LET c == invocation'.bytes
            p == invocation'.file
        IN /\ Sha1(c) \in DOMAIN objects'
           /\ objects'[Sha1(c)] = c
           /\ ReadIndex' = Append(ReadIndex, [path |-> p, hash |-> Sha1(c)])]_vars

\* C5: after an add has put the bytes c into the store, the object under the
\* digest of c can be read and holds exactly c.
C5_PutGet ==
    Succeeded("add", "Added") =>
        LET c == invocation.bytes
        IN /\ ~ReadObjectThrows(Sha1(c))
           /\ Utf8Encode(getFileContent(Sha1(c))) = c

\* C6: init in a repository whose layout is present reports that it is
\* already initialized and leaves objects, HEAD and index as they were.
C6_InitIdempotent ==
    [][(/\ pc = "idle"
        /\ invocation'.cmd = "init"
        /\ objectsDir /\ HEAD # Absent /\ index # Absent) =>
            /\ out' = <<[k |-> "Repository is already initialized."]>>
            /\ repo' = repo]_vars

\* a second init has run on a repository with a commit and a staged entry
C6_Witness ==
    /\ Succeeded("init", "Repository is already initialized.")
    /\ Truthy(getCurrentHead)
    /\ ReadIndex # <<>>

\* C7: HEAD changes in no step but a successful commit and the init that
\* creates the layout: not in an init of an initialized repository, an add, a
\* log, a show, or a commit that reports an error.
C7_HeadOnlyByCommit ==
    [][HEAD' # HEAD =>
        \/ Succeeded("commit", "Commit successfully created:")'
        \/ pc = "idle" /\ invocation'.cmd = "init" /\ HEAD = Absent]_vars

\* an add has succeeded in a repository whose Head is a commit
C7_Witness == Succeeded("add", "Added") /\ Truthy(getCurrentHead) /\ Len(out) = 1

\* C8: no step removes an object from the store or changes what it holds.
C8_AppendOnly ==
    [][\A d \in DOMAIN objects : d \in DOMAIN objects' /\ objects'[d] = objects[d]]_vars

\* after a commit, the same content has been added twice, the second add
\* writing under a digest that was there
C8_Witness ==
    /\ Succeeded("add", "Added")
    /\ made # <<>>
    /\ Len(ReadIndex) = 2
    /\ ReadIndex[1].hash = ReadIndex[2].hash

\* C9: show of a commit prints, for each entry of its files in order, the
\* path, the blob, and one outcome: 'First commit.' when the commit has no
\* parent; a diff of the blob of a parent entry of the same path against the
\* entry's blob when the parent has such an entry; 'New file in this commit.'
\* when the parent has none.
C9_ShowClassifies ==
    (Succeeded("show", "First commit.") \/ Succeeded("show", "Diff:")
        \/ Succeeded("show", "New file in this commit.")
        \/ Succeeded("show", "Changes in the last commit are:")) =>
        LET commitData == CommitAt(invocation.commitHash)
            n == Len(commitData.files)
        IN /\ Len(out) = 1 + 3 * n
           /\ \A i \in 1..n :
                LET file == commitData.files[i]
                    outcome == out[1 + 3 * i]
                IN /\ out[3 * i - 1] = [k |-> "File:", path |-> file.path]
                   /\ out[3 * i] = [k |-> "content", text |-> getFileContent(file.hash)]
                   /\ IF commitData.parent = Null
                      THEN outcome = [k |-> "First commit."]
                      ELSE LET parentFiles == CommitAt(commitData.parent).files
                               same == {j \in 1..Len(parentFiles) :
                                            parentFiles[j].path = file.path}
                           IN IF same = {}
                              THEN outcome = [k |-> "New file in this commit."]
                              ELSE \E j \in same :
                                     outcome = diffOutcome(
                                                   getFileContent(parentFiles[j].hash),
                                                   getFileContent(file.hash))

\* show has diffed a file against a different blob of the same path in the
\* parent
C9_Witness ==
    /\ Succeeded("show", "Diff:")
    /\ out[Len(out)].old # out[Len(out)].new

\* C10: no step of show or of log changes the object store, HEAD or the
\* index, whatever the digest given to show.
C10_ShowLogReadOnly ==
    [][invocation'.cmd \in {"show", "log"} => repo' = repo]_vars

\* show has been given the digest of a blob, in a repository with a commit
\* and a staged entry
C10_Witness ==
    /\ invocation.cmd = "show"
    /\ out = <<ErrorShowing>>
    /\ Truthy(getCurrentHead)
    /\ ReadIndex # <<>>
\* C14: when the parent's files hold entries of the path of a file of the
\* commit shown, the diff printed for that file is against the blob of the
\* last of them.
C14_ShowDiffsLastEntry ==
    (invocation.cmd = "show" /\ out[1].k = "Changes in the last commit are:") =>
        LET commitData == CommitAt(invocation.commitHash)
        IN \A i \in 1..Len(commitData.files) :
             (1 + 3 * i <= Len(out) /\ out[1 + 3 * i].k = "Diff:") =>
                LET parentFiles == CommitAt(commitData.parent).files
                    same == {j \in 1..Len(parentFiles) :
                                 parentFiles[j].path = commitData.files[i].path}
                    last == CHOOSE j \in same : \A l \in same : l <= j
                IN out[1 + 3 * i].old = getFileContent(parentFiles[last].hash)

\* the lines that report a failure
ErrorLines == {"Error adding file:", "Error updating staging area:", "Error reading HEAD:",
               "Error committing:", "Error retrieving commit log:",
               "Failed to read the commit data:", "Commit not found.",
               "Error showing commit diff:"}

Uninitialized == ~objectsDir /\ HEAD = Absent /\ index = Absent

\* C18: an add of a file that cannot be read, and an add, commit, log or show
\* in a directory without a repository, prints an error line and leaves the
\* stored state as it was: no object written, index and HEAD untouched, no
\* file or directory of the repository created.
C18_FailureLeavesState ==
    [][(/\ pc = "idle"
        /\ \/ invocation'.cmd = "add" /\ invocation'.bytes = Absent
           \/ Uninitialized /\ invocation'.cmd \in {"add", "commit", "log", "show"}) =>
            /\ repo' = repo
            /\ \E i \in 1..Len(out') : out'[i].k \in ErrorLines]_vars

\* an add of a readable file has failed in a directory without a repository
C18_Witness ==
    /\ Uninitialized
    /\ invocation.cmd = "add"
    /\ invocation.bytes # Absent
    /\ out = <<[k |-> "Error adding file:"]>>

\* C20: every object of the store, blob or commit record, is stored under the
\* digest of the bytes it holds, and a write under a digest that is there
\* leaves the bytes held there as they were.
C20_ContentAddressed ==
    /\ [](\A d \in DOMAIN objects : d = Sha1(objects[d]))
    /\ [][\A d \in DOMAIN objects \cap DOMAIN objects' : objects'[d] = objects[d]]_vars

\* the store holds a commit record and the blob of a file that was not valid
\* UTF-8, added a second time after the commit
C20_Witness ==
    /\ Succeeded("add", "Added")
    /\ invocation.bytes = [bytes |-> <<255>>]
    /\ made # <<>>
    /\ \E i \in 1..Len(CommitAt(made[1]).files) :
           CommitAt(made[1]).files[i].hash = Sha1([bytes |-> <<239, 191, 189>>])

\* the digests log reads from h on: the chain of parents up to the first
\* digest that is null or cannot be read and parsed, at most n of them
RECURSIVE Walk(_, _)
Walk(h, n) ==
    IF n = 0 \/ ~Truthy(h) \/ ~Readable(h) THEN <<>>
    ELSE <<h>> \o Walk(CommitAt(h).parent, n - 1)

\* the digest at which that walk stops
RECURSIVE WalkEnd(_, _)
WalkEnd(h, n) ==
    IF n = 0 \/ ~Truthy(h) \/ ~Readable(h) THEN h
    ELSE WalkEnd(CommitAt(h).parent, n - 1)

LogFailed == \E i \in 1..Len(out) : out[i].k = "Error retrieving commit log:"

\* C11 as stated: a log that has met a commit it cannot read or parse has
\* printed no commit at all.
C11_NoPartialLog == (LogDone /\ LogFailed) => LogEntries = <<>>

\* what a log that has just ended has printed
LogStopsAtBrokenLink ==
    LET n == Cardinality(DOMAIN objects) + 1
        end == WalkEnd(getCurrentHead, n)
    IN /\ [i \in 1..Len(LogEntries) |-> LogEntries[i].hash] = Walk(getCurrentHead, n)
       /\ LogFailed <=> Truthy(end)
       /\ \A i \in 1..Len(out) :
            out[i].k = "Error retrieving commit log:" => i = Len(out)

\* C11 as the code has it: when a log ends, it has printed the commits of the
\* chain from Head up to the first one it cannot read or parse, in order, and
\* none after it; it has printed an error exactly when there is such a commit,
\* and as its last line.
C11_LogStopsAtBrokenLink ==
    [][(pc = "log" /\ pc' = "idle") => LogStopsAtBrokenLink']_vars

\* a log has printed the newer commit and failed at its parent
C11_Witness ==
    /\ LogDone
    /\ LogFailed
    /\ Len(LogEntries) = 1
    /\ Len(made) = 2
    /\ LogEntries[1].hash = made[2]

\* the texts of the parts of the kinds given, joined in order
RECURSIVE Joined(_, _)
Joined(parts, kinds) ==
    IF parts = <<>> THEN <<>>
    ELSE (IF Head(parts).k \in kinds THEN Head(parts).text.chars ELSE <<>>)
             \o Joined(Tail(parts), kinds)

DiffShown == invocation.cmd = "diff" /\ pc = "idle"

\* C15: the diff of a text against itself, as show prints it, has no part
\* marked added and none marked removed, and its parts joined are the text.
C15_DiffOfSameText ==
    (DiffShown /\ invocation.old = invocation.new) =>
        LET parts == out[1].parts
        IN /\ \A i \in 1..Len(parts) : parts[i].k = "grey"
           /\ Joined(parts, {"grey"}) = invocation.new.chars

\* a text of two lines has been diffed against itself
C15_Witness ==
    /\ DiffShown
    /\ invocation.old = invocation.new
    /\ Len(Lines(invocation.new.chars)) = 2
    /\ Len(out[1].parts) = 1

\* C16: in the diff of old against new, as show prints it, the removed and
\* unchanged parts joined in order are old, the added and unchanged parts
\* joined in order are new, and no added part is directly followed by a
\* removed part; "a" against "ab" is the one line "a" removed, then the one
\* line "ab" added.
C16_DiffCoversBothTexts ==
    DiffShown =>
        LET parts == out[1].parts
        IN /\ Joined(parts, {"--", "grey"}) = invocation.old.chars
           /\ Joined(parts, {"++", "grey"}) = invocation.new.chars
           /\ \A i \in 1..(Len(parts) - 1) :
                ~(parts[i].k = "++" /\ parts[i + 1].k = "--")
           /\ (invocation.old.chars = <<97>> /\ invocation.new.chars = <<97, 98>>) =>
                parts = <<[k |-> "--", text |-> [chars |-> <<97>>]],
                          [k |-> "++", text |-> [chars |-> <<97, 98>>]]>>

\* a diff with a line removed and another added between two common lines
C16_Witness ==
    /\ DiffShown
    /\ \E i \in 1..(Len(out[1].parts) - 1) :
           out[1].parts[i].k = "--" /\ out[1].parts[i + 1].k = "++"
    /\ \E i \in 1..Len(out[1].parts) : out[1].parts[i].k = "grey"

\* the lines that report a success of add or commit
SuccessLines == {"Added", "Commit successfully created:"}

\* C12: once an add or a commit has printed an error it has ended, and it
\* prints nothing after the error, in particular no success.
C12_FailureAborts ==
    \A p \in Procs :
        procs[p].cmd \in {"add", "commit"} =>
            \A i \in 1..Len(procs[p].out) :
                procs[p].out[i].k \in ErrorLines =>
                    /\ procs[p].pc = "idle"
                    /\ i = Len(procs[p].out)

\* the commit p was killed after it had written its record and before it had
\* written the index
KilledBetweenWrites(p) ==
    procs[p].cmd = "commit" /\ procs[p].at \in {"commit_writeHead", "commit_writeIndex"}

\* HEAD and index are as the commit p found them, or as it would have left
\* them
Consistent(p) ==
    \/ HEAD = procs[p].loc.head /\ ReadIndex = procs[p].loc.index
    \/ getCurrentHead = procs[p].loc.commitHash /\ ReadIndex = <<>>

\* log, run now, would print an error
LogSurfaces == Truthy(WalkEnd(getCurrentHead, Cardinality(DOMAIN objects) + 1))

\* show of a commit made, run now, would print an error
ShowSurfaces ==
    \E i \in 1..Len(made) :
        LET lines == showOutput(made[i])
        IN \E l \in 1..Len(lines) : lines[l] \in {FailedToRead, ErrorShowing}

\* C13: after a commit was killed between two of its writes, HEAD and index
\* are as before the commit or as after it, or the next log or show prints an
\* error.
C13_InterruptedCommitSurfaced ==
    \A p \in Procs :
        KilledBetweenWrites(p) => Consistent(p) \/ LogSurfaces \/ ShowSurfaces

\* C19: also after an invocation was killed, HEAD is missing, empty or the
\* digest of a commit record in the store; the commit records in the store are
\* the commits made; and the parent of each is null or a commit made before it.
C19_HeadAndParentsStored ==
    /\ \/ HEAD = Absent
       \/ getCurrentHead = EmptyString
       \/ Readable(getCurrentHead) /\ \E i \in 1..Len(made) : made[i] = getCurrentHead
    /\ \A h \in DOMAIN objects : Readable(h) => \E i \in 1..Len(made) : made[i] = h
    /\ \A i \in 1..Len(made) :
          /\ Readable(made[i])
          /\ \/ CommitAt(made[i]).parent = Null
             \/ \E j \in 1..(i - 1) : made[j] = CommitAt(made[i]).parent

\* a second commit was killed after it had written its record: HEAD is still
\* the first commit
C19_Witness ==
    /\ procs[1].cmd = "commit"
    /\ procs[1].at = "commit_writeHead"
    /\ Len(made) = 2
    /\ made[1] # made[2]
    /\ getCurrentHead = made[1]

\* C17: the index an add writes is the index it read with its entry at the
\* end, and the index a commit writes is empty and its record holds the index
\* it read, whatever was written to the index in between: an entry staged in
\* between is lost.
C17_StaleIndexWrites ==
    [][\A p \in Procs :
          /\ (procs[p].pc = "add_write" /\ procs'[p].pc = "idle") =>
                 ReadIndex' = procs[p].loc.index
          /\ (procs[p].pc = "commit_writeIndex" /\ procs'[p].pc = "idle") =>
                 /\ ReadIndex' = <<>>
                 /\ CommitAt(procs[p].loc.commitHash).files = procs[p].loc.index]_vars

\* the file with path f is staged in the index or in a commit made
InIndexOrCommit(f) ==
    \/ \E i \in 1..Len(ReadIndex) : ReadIndex[i].path = f
    \/ \E c \in 1..Len(made) :
          \E i \in 1..Len(CommitAt(made[c]).files) : CommitAt(made[c]).files[i].path = f

\* an add and a commit have both reported success, and the file added is
\* neither in the index nor in any commit
C17_Witness ==
    \E p, q \in Procs :
        /\ procs[p].pc = "idle" /\ procs[p].cmd = "add"
        /\ procs[p].out = <<[k |-> "Added", file |-> "a.txt"]>>
        /\ procs[q].pc = "idle" /\ procs[q].cmd = "commit"
        /\ Len(procs[q].out) = 1 /\ procs[q].out[1].k = "Commit successfully created:"
        /\ ~InIndexOrCommit("a.txt")

\* two adds, of a.txt and of b.txt, have both reported success, and the index
\* holds one entry only
C17_TwoAddsOneEntry ==
    /\ \A p \in Procs : procs[p].pc = "idle" /\ procs[p].cmd = "add"
    /\ procs[1].out = <<[k |-> "Added", file |-> "a.txt"]>>
    /\ procs[2].out = <<[k |-> "Added", file |-> "b.txt"]>>
    /\ Len(ReadIndex) = 1
    /\ made = <<>>
====
